---- MODULE Spec2Model ----
(***************************************************************************)
(* The py-arrakis cookbook script (examples/cookbook.py) run against the   *)
(* Arrakis REST server.  The script is one synchronous thread: __main__    *)
(* calls four examples in turn through wrap_with_error_handling; each      *)
(* example is a straight line of SDK calls and sleeps.  The SDK wrapper    *)
(* (package py_arrakis) and the server are not part of the sources; they   *)
(* are modelled from the HTTP contract the specification gives.            *)
(***************************************************************************)
EXTENDS Naturals, Sequences, FiniteSets, TLC

\* ------------------------------------------------------------ bounds
\* Number of successive runs of the whole script against the same server.
MaxRuns == 2

\* ------------------------------------------------------------ constants
BASE_URL == "http://localhost:7000"
VM_START_WAIT_TIME_SECONDS == 3

\* The text the restore check expects (cookbook.py line 131).
BEFORE_SNAPSHOT == "test data before snapshot\n"
AFTER_SNAPSHOT == "test data after snapshot\n"

\* A VM some other client may have left on the server before the script runs.
OtherVm == "preexisting-vm"

\* ------------------------------------------------------------ statements
\* One statement of an example: the operation and its literal argument.
Stmt(op, arg) == [op |-> op, arg |-> arg]

\* A copy of basic_usage_example that starts "example-vm" whatever list_all
\* returned.
basic_usage_example_always_starts ==
  << Stmt("list_all", ""),
     Stmt("start_sandbox", "example-vm"),
     Stmt("sleep", VM_START_WAIT_TIME_SECONDS) >>

\* Lines 30-45: list_all; if not sandboxes: start "example-vm" and sleep;
\* else: new_sandbox = sandboxes[0].
basic_usage_example ==
  << Stmt("list_all", ""),                        \* 30
     Stmt("if_not_sandboxes", 5),                 \* 35: true -> statement 5
     Stmt("first_sandbox", ""),                   \* 45 (else branch)
     Stmt("return", ""),
     Stmt("start_sandbox", "example-vm"),         \* 37
     Stmt("sleep", VM_START_WAIT_TIME_SECONDS) >> \* 42

\* A copy of vm_management_example without the final destroy.
vm_management_example_no_destroy ==
  << Stmt("start_sandbox", "lifecycle-example"),
     Stmt("sleep", VM_START_WAIT_TIME_SECONDS),
     Stmt("list", "") >>

\* A copy of vm_management_example without the sleep.
vm_management_example_no_sleep ==
  << Stmt("start_sandbox", "lifecycle-example"),
     Stmt("list", ""),
     Stmt("destroy", "") >>

\* Lines 56-80.
vm_management_example ==
  << Stmt("start_sandbox", "lifecycle-example"),  \* 56
     Stmt("sleep", VM_START_WAIT_TIME_SECONDS),   \* 61
     Stmt("list", ""),                            \* 65
     Stmt("destroy", "") >>                       \* 80

\* A copy of snapshot_example that takes the snapshot after the second write.
snapshot_example_late_snapshot ==
  << Stmt("start_sandbox", "snapshot-example"),
     Stmt("sleep", VM_START_WAIT_TIME_SECONDS),
     Stmt("run_cmd", "echo 'test data before snapshot' > /tmp/testfile"),
     Stmt("run_cmd", "echo 'test data after snapshot' > /tmp/testfile"),
     Stmt("snapshot", "initial-state"),
     Stmt("run_cmd", "cat /tmp/testfile"),
     Stmt("destroy", ""),
     Stmt("restore", "snapshot-example"),
     Stmt("run_cmd", "cat /tmp/testfile"),
     Stmt("check_output", BEFORE_SNAPSHOT),
     Stmt("destroy", "") >>

\* A copy of snapshot_example that restores without destroying first.
snapshot_example_no_destroy_before_restore ==
  << Stmt("start_sandbox", "snapshot-example"),
     Stmt("sleep", VM_START_WAIT_TIME_SECONDS),
     Stmt("run_cmd", "echo 'test data before snapshot' > /tmp/testfile"),
     Stmt("snapshot", "initial-state"),
     Stmt("run_cmd", "echo 'test data after snapshot' > /tmp/testfile"),
     Stmt("run_cmd", "cat /tmp/testfile"),
     Stmt("restore", "snapshot-example"),
     Stmt("run_cmd", "cat /tmp/testfile"),
     Stmt("check_output", BEFORE_SNAPSHOT),
     Stmt("destroy", "") >>

\* Lines 93-138.
snapshot_example ==
  << Stmt("start_sandbox", "snapshot-example"),                            \* 93
     Stmt("sleep", VM_START_WAIT_TIME_SECONDS),                            \* 97
     Stmt("run_cmd", "echo 'test data before snapshot' > /tmp/testfile"),  \* 101
     Stmt("snapshot", "initial-state"),                                    \* 106
     Stmt("run_cmd", "echo 'test data after snapshot' > /tmp/testfile"),   \* 111
     Stmt("run_cmd", "cat /tmp/testfile"),                                 \* 116
     Stmt("destroy", ""),                                                  \* 121
     Stmt("restore", "snapshot-example"),                                  \* 125
     Stmt("run_cmd", "cat /tmp/testfile"),                                 \* 130
     Stmt("check_output", BEFORE_SNAPSHOT),                                \* 131
     Stmt("destroy", "") >>                                                \* 138

\* A copy of context_manager_example that also destroys the sandbox by hand
\* inside the block.
context_manager_example_explicit_destroy ==
  << Stmt("start_sandbox", "auto-cleanup-example"),
     Stmt("__enter__", ""),
     Stmt("sleep", VM_START_WAIT_TIME_SECONDS),
     Stmt("run_cmd", "echo 'Hello from sandbox context manager'"),
     Stmt("destroy", ""),
     Stmt("__exit__", "") >>

\* Lines 151-164: with start_sandbox(...) as sandbox: sleep; run_cmd.
context_manager_example ==
  << Stmt("start_sandbox", "auto-cleanup-example"),                    \* 151
     Stmt("__enter__", ""),                                            \* 151
     Stmt("sleep", VM_START_WAIT_TIME_SECONDS),                        \* 156
     Stmt("run_cmd", "echo 'Hello from sandbox context manager'"),     \* 160
     Stmt("__exit__", "") >>                                           \* 164-166

\* Lines 208-219: the examples in the order __main__ runs them.
main ==
  << "basic_usage_example", "vm_management_example",
     "snapshot_example", "context_manager_example" >>

\* The statements of the function named func.
Body(func) ==
  CASE func = "basic_usage_example" -> basic_usage_example
    [] func = "vm_management_example" -> vm_management_example
    [] func = "snapshot_example" -> snapshot_example
    [] func = "context_manager_example" -> context_manager_example


\* ------------------------------------------------------------ state
VARIABLES
  run,          \* number of the current run of the script
  ex,           \* index in main of the example running or last run (0: none)
  pc,           \* index of the next statement of that example
  state,        \* "idle", "running", "unwinding", "raised", "aborted", "completed"
  exc,          \* the exception in flight or last raised (kind "None": none)
  sandboxes,    \* local of basic_usage_example: what list_all returned
  sandbox,      \* local: name the current handle is bound to ("" : none)
  snapshot_id,  \* local of snapshot_example (0: unassigned)
  result,       \* local: the parsed body of the last run_cmd response
  scope,        \* name of the handle the active with block manages ("" : none)
  vms,          \* server: VM name -> content of its /tmp/testfile
  snapshots,    \* server: snapshot id (index) -> saved content
  out,          \* diagnostics printed for the current example
  steps,        \* statements and SDK calls the current example executed
  reqs,         \* HTTP requests the current example issued, with responses
  unwaited,     \* VM name -> call that brought it up, no sleep elapsed since
  injected,     \* some request or sleep has failed for an external reason
  entryVms,     \* names on the server when the current example was entered
  initEmpty     \* the server held no VM when the first run began

ctlVars == <<run, ex, pc, state, exc>>
localVars == <<sandboxes, sandbox, snapshot_id, result, scope>>
serverVars == <<vms, snapshots>>
logVars == <<out, steps, reqs>>
ghostVars == <<unwaited, injected, entryVms, initEmpty>>
vars == <<ctlVars, localVars, serverVars, logVars, ghostVars>>

\* ------------------------------------------------------------ exceptions
NoExc == [kind |-> "None", msg |-> "", wellformed |-> FALSE]
\* requests.HTTPError carrying the response; msg is error.message of its
\* body when the body is well-formed JSON.
HTTPError(msg, wellformed) ==
  [kind |-> "HTTPError", msg |-> msg, wellformed |-> wellformed]
ConnectionError == [kind |-> "ConnectionError", msg |-> "connection refused",
                    wellformed |-> FALSE]
KeyError(key) == [kind |-> "KeyError", msg |-> key, wellformed |-> FALSE]
\* Raised by the for loop of line 73 over a port_forwards that is null.
TypeError(msg) == [kind |-> "TypeError", msg |-> msg, wellformed |-> FALSE]
\* Raised by response.json() or by the subscripts at line 191-192.
BodyError == [kind |-> "JSONDecodeError", msg |-> "Expecting value",
              wellformed |-> FALSE]
KeyboardInterrupt == [kind |-> "KeyboardInterrupt", msg |-> "",
                      wellformed |-> FALSE]
\* The kinds that are subclasses of Exception.
ExceptionKinds ==
  {"HTTPError", "ConnectionError", "KeyError", "TypeError", "JSONDecodeError"}

\* ------------------------------------------------------------ SDK wrapper
\* The HTTP method each wrapper method uses.
HttpMethod(call) ==
  CASE call \in {"list_all", "list"} -> "GET"
    [] call \in {"start_sandbox", "restore", "run_cmd", "snapshot"} -> "POST"
    [] call = "destroy" -> "DELETE"

\* What can happen to one request: the server answers ("ok"), it answers
\* non-2xx for a reason of its own with the documented error body
\* ("api_error") or with a body that is not the documented JSON ("bad_body"),
\* it cannot be reached ("unreachable"), it answers a run_cmd 2xx with a
\* body that has no output key ("no_output"), or it answers a list 2xx with
\* a port_forwards entry that has no description ("no_description") or with
\* port_forwards null ("null_forwards").
Outcomes(call) ==
  {"ok", "api_error", "bad_body", "unreachable"}
    \cup (IF call = "run_cmd" THEN {"no_output"} ELSE {})
    \cup (IF call = "list" THEN {"no_description", "null_forwards"} ELSE {})

NoBody == [cmd |-> "", tag |-> "", snapshot_id |-> 0]
\* The details of a VM as list() returns them: whether the port_forwards key
\* is there, whether its value can be iterated (it is not null), and its
\* entries, each with the keys it has.
PlainDetails ==
  [has_port_forwards |-> FALSE, iterable |-> TRUE, port_forwards |-> <<>>]
PortForward(keys) ==
  [host_port |-> "3000", guest_port |-> "5901", description |-> "vnc",
   keys |-> keys]
ForwardsDetails ==
  [PlainDetails EXCEPT
     !.has_port_forwards = TRUE,
     !.port_forwards =
        <<PortForward({"host_port", "guest_port", "description"})>>]
\* The well-formed details a server may give for a VM.
DetailsBodies == {PlainDetails, ForwardsDetails}
NoReply == [sandboxes |-> <<>>, snapshot_id |-> 0,
            has_output |-> FALSE, output |-> "", details |-> PlainDetails]

\* ------------------------------------------------------------ server
\* The server running a command in a VM whose /tmp/testfile holds `file`.
Exec(cmd, file) ==
  CASE cmd = "echo 'test data before snapshot' > /tmp/testfile" ->
         [output |-> "", file |-> BEFORE_SNAPSHOT]
    [] cmd = "echo 'test data after snapshot' > /tmp/testfile" ->
         [output |-> "", file |-> AFTER_SNAPSHOT]
    [] cmd = "cat /tmp/testfile" -> [output |-> file, file |-> file]
    [] cmd = "echo 'Hello from sandbox context manager'" ->
         [output |-> "Hello from sandbox context manager\n", file |-> file]

Without(f, name) == [n \in DOMAIN f \ {name} |-> f[n]]

Answer(status, msg, reply, newVms, newSnapshots) ==
  [status |-> status, wellformed |-> TRUE, msg |-> msg, reply |-> reply,
   vms |-> newVms, snapshots |-> newSnapshots]
Reject(status, msg) == Answer(status, msg, NoReply, vms, snapshots)

\* The server handling a request it received, in state (vms, snapshots).
\* `content` is what the server chooses to say: for list_all the order in
\* which it lists its VMs, for list the details of the VM.
Serve(call, name, body, content) ==
  CASE call = "list_all" ->
         Answer(200, "", [NoReply EXCEPT !.sandboxes = content], vms, snapshots)
    [] call = "start_sandbox" ->
         IF name \in DOMAIN vms THEN Reject(409, "name collision")
         ELSE Answer(201, "", NoReply, vms @@ (name :> ""), snapshots)
    [] call = "restore" ->
         IF name \in DOMAIN vms THEN Reject(409, "name collision")
         ELSE IF body.snapshot_id \notin 1..Len(snapshots)
         THEN Reject(404, "snapshot not found")
         ELSE Answer(201, "", NoReply,
                     vms @@ (name :> snapshots[body.snapshot_id]), snapshots)
    [] call \in {"list", "run_cmd", "snapshot", "destroy"}
         /\ name \notin DOMAIN vms -> Reject(404, "vm not found")
    [] call = "list" ->
         Answer(200, "", [NoReply EXCEPT !.details = content], vms, snapshots)
    [] call = "run_cmd" ->
         LET r == Exec(body.cmd, vms[name]) IN
         Answer(200, "",
                [NoReply EXCEPT !.has_output = TRUE, !.output = r.output],
                [vms EXCEPT ![name] = r.file], snapshots)
    [] call = "snapshot" ->
         Answer(200, "", [NoReply EXCEPT !.snapshot_id = Len(snapshots) + 1],
                vms, Append(snapshots, vms[name]))
    [] call = "destroy" ->
         Answer(200, "", NoReply, Without(vms, name), snapshots)

\* The response to one request under `outcome`; status 0: no response.
Respond(call, name, body, outcome, content) ==
  CASE outcome = "unreachable" -> [Reject(0, "") EXCEPT !.wellformed = FALSE]
    [] outcome = "api_error" -> Reject(500, "internal error")
    [] outcome = "bad_body" -> [Reject(502, "") EXCEPT !.wellformed = FALSE]
    [] outcome = "no_output" ->
         LET a == Serve(call, name, body, content) IN
         IF a.status \in 200..299
         THEN [a EXCEPT !.reply = [@ EXCEPT !.has_output = FALSE, !.output = ""]]
         ELSE a
    [] outcome = "no_description" ->
         LET a == Serve(call, name, body, content) IN
         IF a.status \in 200..299
         THEN [a EXCEPT !.reply.details =
                 [ForwardsDetails EXCEPT !.port_forwards =
                    <<PortForward({"host_port", "guest_port"})>>]]
         ELSE a
    [] outcome = "null_forwards" ->
         LET a == Serve(call, name, body, content) IN
         IF a.status \in 200..299
         THEN [a EXCEPT !.reply.details =
                 [ForwardsDetails EXCEPT !.iterable = FALSE,
                                         !.port_forwards = <<>>]]
         ELSE a
    [] outcome = "ok" -> Serve(call, name, body, content)

\* What the wrapper raises for a response (NoExc: it returns normally).
Raises(r) ==
  IF r.status = 0 THEN ConnectionError
  ELSE IF r.status \in 200..299 THEN NoExc
  ELSE HTTPError(r.msg, r.wellformed)

\* The orders in which a server may list the VMs it holds.
Orders(names) ==
  {s \in [1..Cardinality(names) -> names] :
     \A i, j \in 1..Cardinality(names) : s[i] = s[j] => i = j}


\* ------------------------------------------------------------ control
Program == Body(main[ex])
Cur == Program[pc]
AtStmt(op) ==
  /\ state = "running"
  /\ pc <= Len(Program)
  /\ Cur.op = op

\* How `name` was brought up if no sleep has elapsed since, else "none".
Fresh(name) ==
  IF <<name, "start_sandbox">> \in unwaited THEN "start_sandbox"
  ELSE IF <<name, "restore">> \in unwaited THEN "restore"
  ELSE "none"

\* One wrapper method call, made by the statements `via`: exactly one HTTP
\* request, answered by r.
Request(via, call, name, body, outcome, r) ==
  /\ reqs' = Append(reqs,
       [method |-> HttpMethod(call), call |-> call, name |-> name,
        body |-> body, outcome |-> outcome, status |-> r.status,
        wellformed |-> r.wellformed, msg |-> r.msg, reply |-> r.reply,
        fresh |-> Fresh(name), present |-> name \in DOMAIN vms])
  /\ steps' = Append(steps \o via, [op |-> call, name |-> name])
  /\ vms' = r.vms
  /\ snapshots' = r.snapshots
  /\ injected' = (injected \/ outcome # "ok")

Continue ==
  /\ pc' = pc + 1
  /\ state' = "running"
  /\ exc' = exc

\* An exception leaves the statement: through __exit__ when a with block
\* is active, else straight to the handler of wrap_with_error_handling.
Raise(e) ==
  /\ pc' = pc
  /\ exc' = e
  /\ state' = IF scope # "" THEN "unwinding" ELSE "raised"

Init ==
  /\ run = 1 /\ ex = 0 /\ pc = 0 /\ state = "idle" /\ exc = NoExc
  /\ sandboxes = <<>> /\ sandbox = "" /\ snapshot_id = 0
  /\ result = NoReply /\ scope = ""
  /\ vms \in {[n \in {} |-> ""], [n \in {OtherVm} |-> ""]}
  /\ snapshots = <<>>
  /\ out = <<>> /\ steps = <<>> /\ reqs = <<>>
  /\ unwaited = {} /\ injected = FALSE
  /\ entryVms = DOMAIN vms
  /\ initEmpty = (DOMAIN vms = {})

\* Line 188: wrap_with_error_handling calls the next example of __main__.
Call ==
  /\ state = "idle" /\ ex < Len(main)
  /\ ex' = ex + 1 /\ pc' = 1 /\ state' = "running" /\ exc' = NoExc
  /\ sandboxes' = <<>> /\ sandbox' = "" /\ snapshot_id' = 0
  /\ result' = NoReply /\ scope' = ""
  /\ out' = <<>> /\ steps' = <<>> /\ reqs' = <<>>
  /\ entryVms' = DOMAIN vms
  /\ UNCHANGED <<run, serverVars, unwaited, injected, initEmpty>>

\* ------------------------------------------------------------ statements
\* Line 30: sandboxes = sandbox_manager.list_all()
ListAll ==
  /\ AtStmt("list_all")
  /\ \E outcome \in Outcomes("list_all"), order \in Orders(DOMAIN vms) :
       LET r == Respond("list_all", "", NoBody, outcome, order) IN
       /\ Request(<<>>, "list_all", "", NoBody, outcome, r)
       /\ IF Raises(r) = NoExc
          THEN sandboxes' = r.reply.sandboxes /\ Continue
          ELSE Raise(Raises(r)) /\ UNCHANGED sandboxes
  /\ UNCHANGED <<run, ex, sandbox, snapshot_id, result, scope, out,
                 unwaited, entryVms, initEmpty>>

\* Line 35: if not sandboxes
IfNotSandboxes ==
  /\ AtStmt("if_not_sandboxes")
  /\ pc' = IF sandboxes = <<>> THEN Cur.arg ELSE pc + 1
  /\ steps' = Append(steps, [op |-> "if_not_sandboxes", name |-> ""])
  /\ UNCHANGED <<run, ex, state, exc, localVars, serverVars, out, reqs,
                 ghostVars>>

\* Line 45: new_sandbox = sandboxes[0]
FirstSandbox ==
  /\ AtStmt("first_sandbox")
  /\ sandbox' = sandboxes[1]
  /\ steps' = Append(steps, [op |-> "first_sandbox", name |-> sandboxes[1]])
  /\ Continue
  /\ UNCHANGED <<run, ex, sandboxes, snapshot_id, result, scope, serverVars,
                 out, reqs, ghostVars>>

\* Lines 37, 56, 93, 151: sandbox = sandbox_manager.start_sandbox(name)
StartSandbox ==
  /\ AtStmt("start_sandbox")
  /\ \E outcome \in Outcomes("start_sandbox") :
       LET r == Respond("start_sandbox", Cur.arg, NoBody, outcome, <<>>) IN
       /\ Request(<<>>, "start_sandbox", Cur.arg, NoBody, outcome, r)
       /\ IF Raises(r) = NoExc
          THEN /\ sandbox' = Cur.arg
               /\ unwaited' = unwaited \cup {<<Cur.arg, "start_sandbox">>}
               /\ Continue
          ELSE Raise(Raises(r)) /\ UNCHANGED <<sandbox, unwaited>>
  /\ UNCHANGED <<run, ex, sandboxes, snapshot_id, result, scope, out,
                 entryVms, initEmpty>>

\* Lines 42, 61, 97, 156: time.sleep(VM_START_WAIT_TIME_SECONDS); a signal
\* may interrupt it.
Sleep ==
  /\ AtStmt("sleep")
  /\ steps' = Append(steps, [op |-> "sleep", name |-> ""])
  /\ \E outcome \in {"ok", "interrupt"} :
       IF outcome = "ok"
       THEN /\ unwaited' = IF Cur.arg > 0 THEN {} ELSE unwaited
            /\ Continue
            /\ UNCHANGED injected
       ELSE /\ Raise(KeyboardInterrupt)
            /\ injected' = TRUE
            /\ UNCHANGED unwaited
  /\ UNCHANGED <<run, ex, localVars, serverVars, out, reqs, entryVms,
                 initEmpty>>

\* Line 75: the first of pf['host_port'], pf['guest_port'],
\* pf['description'] whose key the entry lacks ("" : it has them all).
MissingKey(pf) ==
  IF "host_port" \notin pf.keys THEN "'host_port'"
  ELSE IF "guest_port" \notin pf.keys THEN "'guest_port'"
  ELSE IF "description" \notin pf.keys THEN "'description'"
  ELSE ""

\* Lines 66-76: what printing the details raises (NoExc: nothing).  The
\* .get() calls of lines 66-68 raise nothing; the loop of line 73 runs only
\* if the port_forwards key is there, raises TypeError over null, and
\* KeyError at the first entry that lacks a key.
PrintDetails(details) ==
  IF ~details.has_port_forwards THEN NoExc
  ELSE IF ~details.iterable
  THEN TypeError("'NoneType' object is not iterable")
  ELSE LET bad == {i \in 1..Len(details.port_forwards) :
                     MissingKey(details.port_forwards[i]) # ""} IN
       IF bad = {} THEN NoExc
       ELSE KeyError(MissingKey(details.port_forwards[
                       CHOOSE i \in bad : \A j \in bad : i <= j]))

\* Lines 65-76: details = sandbox.list(), then print them.
List ==
  /\ AtStmt("list")
  /\ \E outcome \in Outcomes("list"), content \in DetailsBodies :
       LET r == Respond("list", sandbox, NoBody, outcome, content) IN
       /\ Request(<<>>, "list", sandbox, NoBody, outcome, r)
       /\ IF Raises(r) # NoExc THEN Raise(Raises(r))
          ELSE IF PrintDetails(r.reply.details) # NoExc
          THEN Raise(PrintDetails(r.reply.details))
          ELSE Continue
  /\ UNCHANGED <<run, ex, localVars, out, unwaited, entryVms, initEmpty>>

\* Lines 101, 111, 116, 130, 160: result = sandbox.run_cmd(cmd)
RunCmd ==
  /\ AtStmt("run_cmd")
  /\ \E outcome \in Outcomes("run_cmd") :
       LET body == [NoBody EXCEPT !.cmd = Cur.arg]
           r == Respond("run_cmd", sandbox, body, outcome, <<>>) IN
       /\ Request(<<>>, "run_cmd", sandbox, body, outcome, r)
       /\ IF Raises(r) = NoExc
          THEN result' = r.reply /\ Continue
          ELSE Raise(Raises(r)) /\ UNCHANGED result
  /\ UNCHANGED <<run, ex, sandboxes, sandbox, snapshot_id, scope, out,
                 unwaited, entryVms, initEmpty>>

\* Line 106: snapshot_id = sandbox.snapshot(tag)
Snapshot ==
  /\ AtStmt("snapshot")
  /\ \E outcome \in Outcomes("snapshot") :
       LET body == [NoBody EXCEPT !.tag = Cur.arg]
           r == Respond("snapshot", sandbox, body, outcome, <<>>) IN
       /\ Request(<<>>, "snapshot", sandbox, body, outcome, r)
       /\ IF Raises(r) = NoExc
          THEN snapshot_id' = r.reply.snapshot_id /\ Continue
          ELSE Raise(Raises(r)) /\ UNCHANGED snapshot_id
  /\ UNCHANGED <<run, ex, sandboxes, sandbox, result, scope, out,
                 unwaited, entryVms, initEmpty>>

\* Lines 80, 121, 138: sandbox.destroy()
Destroy ==
  /\ AtStmt("destroy")
  /\ \E outcome \in Outcomes("destroy") :
       LET r == Respond("destroy", sandbox, NoBody, outcome, <<>>) IN
       /\ Request(<<>>, "destroy", sandbox, NoBody, outcome, r)
       /\ IF Raises(r) = NoExc
          THEN /\ unwaited' = {u \in unwaited : u[1] # sandbox}
               /\ Continue
          ELSE Raise(Raises(r)) /\ UNCHANGED unwaited
  /\ UNCHANGED <<run, ex, localVars, out, entryVms, initEmpty>>

\* Line 125: sandbox = sandbox_manager.restore(sandbox_name, snapshot_id)
Restore ==
  /\ AtStmt("restore")
  /\ \E outcome \in Outcomes("restore") :
       LET body == [NoBody EXCEPT !.snapshot_id = snapshot_id]
           r == Respond("restore", Cur.arg, body, outcome, <<>>) IN
       /\ Request(<<>>, "restore", Cur.arg, body, outcome, r)
       /\ IF Raises(r) = NoExc
          THEN /\ sandbox' = Cur.arg
               /\ unwaited' = unwaited \cup {<<Cur.arg, "restore">>}
               /\ Continue
          ELSE Raise(Raises(r)) /\ UNCHANGED <<sandbox, unwaited>>
  /\ UNCHANGED <<run, ex, sandboxes, snapshot_id, result, scope, out,
                 entryVms, initEmpty>>

\* Line 134: {result} in the f-string, the repr of the dict run_cmd returned
\* (a dict with the one key output).
Repr(res) ==
  CASE res.output = "" -> "{'output': ''}"
    [] res.output = BEFORE_SNAPSHOT ->
         "{'output': 'test data before snapshot\\n'}"
    [] res.output = AFTER_SNAPSHOT ->
         "{'output': 'test data after snapshot\\n'}"
    [] res.output = "Hello from sandbox context manager\n" ->
         "{'output': 'Hello from sandbox context manager\\n'}"

\* Lines 131-134: if result["output"] == "test data before snapshot\n"
CheckOutput ==
  /\ AtStmt("check_output")
  /\ steps' = Append(steps, [op |-> "check_output", name |-> ""])
  /\ IF ~result.has_output
     THEN Raise(KeyError("'output'")) /\ UNCHANGED out
     ELSE /\ out' = Append(out,
                IF result.output = Cur.arg
                THEN <<"File content is correct after restore (as expected)", "">>
                ELSE <<"Unexpected result: ", Repr(result)>>)
          /\ Continue
  /\ UNCHANGED <<run, ex, localVars, serverVars, reqs, ghostVars>>

\* Line 151: the with statement enters the block; __enter__ returns the
\* handle.
Enter ==
  /\ AtStmt("__enter__")
  /\ scope' = sandbox
  /\ steps' = Append(steps, [op |-> "__enter__", name |-> sandbox])
  /\ Continue
  /\ UNCHANGED <<run, ex, sandboxes, sandbox, snapshot_id, result,
                 serverVars, out, reqs, ghostVars>>

\* The with block is left, by its end or by an exception: __exit__ calls
\* destroy() and lets the exception (or the one destroy raised) go on.
Exit ==
  /\ AtStmt("__exit__") \/ state = "unwinding"
  /\ \E outcome \in Outcomes("destroy") :
       LET r == Respond("destroy", scope, NoBody, outcome, <<>>) IN
       /\ Request(<<[op |-> "__exit__", name |-> scope]>>,
                  "destroy", scope, NoBody, outcome, r)
       /\ unwaited' = IF Raises(r) = NoExc
                      THEN {u \in unwaited : u[1] # scope} ELSE unwaited
       /\ IF Raises(r) # NoExc
          THEN pc' = pc /\ state' = "raised" /\ exc' = Raises(r)
          ELSE IF state = "unwinding"
          THEN pc' = pc /\ state' = "raised" /\ exc' = exc
          ELSE pc' = pc + 1 /\ state' = "running" /\ exc' = exc
  /\ scope' = ""
  /\ UNCHANGED <<run, ex, sandboxes, sandbox, snapshot_id, result, out,
                 entryVms, initEmpty>>

\* ------------------------------------------------------------ handler
\* Line 188: func() returns; wrap_with_error_handling returns its value.
Return ==
  /\ state = "running"
  /\ IF pc > Len(Program) THEN TRUE ELSE Cur.op = "return"
  /\ state' = "idle"
  /\ UNCHANGED <<run, ex, pc, exc, localVars, serverVars, logVars, ghostVars>>

\* Lines 189-192: except requests.HTTPError
ExceptHTTPError ==
  /\ state = "raised" /\ exc.kind = "HTTPError"
  /\ IF exc.wellformed
     THEN /\ out' = Append(out, <<"API Error: ", exc.msg>>)
          /\ state' = "idle"
          /\ UNCHANGED exc
     ELSE /\ exc' = BodyError
          /\ state' = "aborted"
          /\ UNCHANGED out
  /\ UNCHANGED <<run, ex, pc, localVars, serverVars, steps, reqs, ghostVars>>

\* Lines 193-197: except Exception
ExceptException ==
  /\ state = "raised" /\ exc.kind \in ExceptionKinds \ {"HTTPError"}
  /\ out' = out \o << <<"Error: ", exc.msg>>,
                      <<"Make sure the Arrakis server is running and accessible at ",
                        BASE_URL>> >>
  /\ state' = "idle"
  /\ UNCHANGED <<run, ex, pc, exc, localVars, serverVars, steps, reqs,
                 ghostVars>>

\* No except clause matches: the exception leaves the script.
Uncaught ==
  /\ state = "raised" /\ exc.kind \notin ExceptionKinds
  /\ state' = "aborted"
  /\ UNCHANGED <<run, ex, pc, exc, localVars, serverVars, logVars, ghostVars>>

\* Line 221: print("All examples completed.")
Finish ==
  /\ state = "idle" /\ ex = Len(main)
  /\ state' = "completed"
  /\ out' = Append(out, <<"All examples completed.", "">>)
  /\ UNCHANGED <<run, ex, pc, exc, localVars, serverVars, steps, reqs,
                 ghostVars>>

\* The script is run again against the same server.
Rerun ==
  /\ state \in {"completed", "aborted"} /\ run < MaxRuns
  /\ run' = run + 1 /\ ex' = 0 /\ pc' = 0 /\ state' = "idle" /\ exc' = NoExc
  /\ UNCHANGED <<localVars, serverVars, logVars, ghostVars>>

Next ==
  \/ Call \/ ListAll \/ IfNotSandboxes \/ FirstSandbox \/ StartSandbox
  \/ Sleep \/ List \/ RunCmd \/ Snapshot \/ Destroy \/ Restore
  \/ CheckOutput \/ Enter \/ Exit \/ Return
  \/ ExceptHTTPError \/ ExceptException \/ Uncaught \/ Finish \/ Rerun

Spec == Init /\ [][Next]_vars


\* ------------------------------------------------------------ vocabulary
\* The example named func is the one running or the one last run.
Running(func) == ex >= 1 /\ main[ex] = func
\* Control has left the example (it returned, or its exception was handled
\* or went uncaught).
Left == ex >= 1 /\ state \in {"idle", "aborted", "completed"}
Ok(q) == q.status \in 200..299
\* No statement of the current example has raised.
NoRaise == exc.kind = "None"
\* Every request of the current example was answered by the server without
\* an external failure, and no sleep was interrupted.
FailureFree ==
  /\ NoRaise
  /\ \A i \in 1..Len(reqs) : reqs[i].outcome = "ok" /\ Ok(reqs[i])
Lines == {out[i] : i \in 1..Len(out)}
ConnectivityLine ==
  <<"Make sure the Arrakis server is running and accessible at ", BASE_URL>>
StepsWith(op) == {i \in 1..Len(steps) : steps[i].op = op}
ReqsWith(call) == {i \in 1..Len(reqs) : reqs[i].call = call}
WrapperCalls ==
  {"list_all", "start_sandbox", "restore", "list", "run_cmd", "snapshot",
   "destroy"}
BringUp == {"start_sandbox", "restore"}
IsCall(s) == s.op \in WrapperCalls
Calls == SelectSeq(steps, IsCall)
WRITE_BEFORE == "echo 'test data before snapshot' > /tmp/testfile"
WRITE_AFTER == "echo 'test data after snapshot' > /tmp/testfile"

\* ------------------------------------------------------------ C1
\* C1: in context_manager_example destroy is invoked on the scoped handle
\* exactly once on every exit path of the with block: not before the block
\* is left, and once the block is left exactly once, as the last call, after
\* the last body step, whether the body completed or raised.
C1_ScopedDestroyOnce ==
  Running("context_manager_example") =>
    /\ (StepsWith("__enter__") = {} \/ scope # "") => StepsWith("destroy") = {}
    /\ (StepsWith("__enter__") # {} /\ scope = "") =>
         /\ Cardinality(StepsWith("destroy")) = 1
         /\ Cardinality({i \in 1..Len(reqs) : reqs[i].method = "DELETE"}) = 1
         /\ steps[Len(steps)].op = "destroy"
         /\ steps[Len(steps)].name = "auto-cleanup-example"
         /\ \A i \in StepsWith("sleep") \cup StepsWith("run_cmd") :
              i < Len(steps)

\* The body raised at run_cmd and the block was left through __exit__.
C1_Witness ==
  /\ Running("context_manager_example")
  /\ state = "raised" /\ exc.kind = "HTTPError"
  /\ Len(reqs) = 3
  /\ reqs[2].call = "run_cmd" /\ ~Ok(reqs[2])
  /\ reqs[3].call = "destroy" /\ Ok(reqs[3])

\* ------------------------------------------------------------ C2
\* C2: whatever failure a wrapped example raises (an HTTP error with or
\* without a well-formed error.message body, or any other Exception),
\* wrap_with_error_handling returns and the script goes on: the script is
\* never ended by an exception of class Exception.
C2_HandlerContinues ==
  state = "aborted" => exc.kind \notin ExceptionKinds

\* ------------------------------------------------------------ C3
\* C3: once an example is left, every non-2xx response it received has been
\* reported as "API Error: <error.message of the body>", and no connectivity
\* diagnostic was printed for it.
C3_ApiErrorSurfaced ==
  Left =>
    \A i \in 1..Len(reqs) :
      (reqs[i].status # 0 /\ ~Ok(reqs[i])) =>
        /\ <<"API Error: ", reqs[i].msg>> \in Lines
        /\ reqs[i].wellformed
        /\ ConnectivityLine \notin Lines

\* ------------------------------------------------------------ C4
\* C4: a failure the handler has handled is reported as exactly one of the
\* two kinds, and the connectivity diagnostic is printed only when a request
\* of the example found the server unreachable.
C4_TwoErrorKinds ==
  /\ (state = "idle" /\ ~NoRaise) =>
       ((\E l \in Lines : l[1] = "API Error: ") # (ConnectivityLine \in Lines))
  /\ ConnectivityLine \in Lines => \E i \in 1..Len(reqs) : reqs[i].status = 0

\* ------------------------------------------------------------ C5
\* C5: the requests an example has sent are, call for call and in order, the
\* wrapper calls it has made, each with the method of its call; a
\* failure-free vm_management_example sends exactly POST, GET, DELETE, and a
\* failure-free context_manager_example exactly one DELETE, on leaving the
\* block.
C5_OneRequestPerCall ==
  /\ Len(reqs) = Len(Calls)
  /\ \A i \in 1..Len(reqs) :
       /\ reqs[i].call = Calls[i].op
       /\ reqs[i].name = Calls[i].name
       /\ reqs[i].method = HttpMethod(Calls[i].op)
  /\ (Running("vm_management_example") /\ Left /\ FailureFree) =>
       /\ [i \in 1..Len(reqs) |-> reqs[i].method] = <<"POST", "GET", "DELETE">>
       /\ [i \in 1..Len(reqs) |-> reqs[i].call] =
            <<"start_sandbox", "list", "destroy">>
       /\ \A i \in 1..Len(reqs) : reqs[i].name = "lifecycle-example"
  /\ (Running("context_manager_example") /\ Left /\ FailureFree) =>
       /\ [i \in 1..Len(reqs) |-> reqs[i].method] = <<"POST", "POST", "DELETE">>
       /\ steps[Len(steps) - 1].op = "__exit__"

\* A failure-free vm_management_example has returned.
C5_Witness ==
  /\ Running("vm_management_example") /\ state = "idle" /\ FailureFree
  /\ Len(reqs) = 3

\* ------------------------------------------------------------ C6
\* C6: basic_usage_example sends a start request, for "example-vm", exactly
\* when list_all returned an empty sequence; it never sends a DELETE; every
\* VM that was on the server when it was entered, and the one it started,
\* is still on the server.
C6_HandleDoesNotOwn ==
  Running("basic_usage_example") =>
    /\ \A i \in 1..Len(reqs) : reqs[i].method # "DELETE"
    /\ entryVms \subseteq DOMAIN vms
    /\ \A i \in ReqsWith("start_sandbox") :
         /\ reqs[i].name = "example-vm"
         /\ Ok(reqs[i]) => "example-vm" \in DOMAIN vms
    /\ Left =>
         ((ReqsWith("start_sandbox") # {}) <=>
            (/\ Len(reqs) >= 1
             /\ reqs[1].call = "list_all" /\ Ok(reqs[1])
             /\ reqs[1].reply.sandboxes = <<>>))

\* basic_usage_example has started "example-vm" and returned.
C6_Witness ==
  /\ Running("basic_usage_example") /\ state = "idle" /\ NoRaise
  /\ ReqsWith("start_sandbox") # {}
  /\ "example-vm" \in DOMAIN vms

\* ------------------------------------------------------------ C7
\* C7: in snapshot_example the snapshot request follows the first write and
\* precedes the second; the restore request follows a destroy of the same
\* name and carries the identifier the snapshot request returned; and when
\* every request succeeded the content read after restore is the content
\* written before the snapshot, and the "correct" line is printed.
C7_SnapshotRoundTrip ==
  Running("snapshot_example") =>
    /\ \A k \in ReqsWith("snapshot") :
         /\ \E i \in 1..(k - 1) : reqs[i].body.cmd = WRITE_BEFORE
         /\ \A i \in 1..(k - 1) : reqs[i].body.cmd # WRITE_AFTER
    /\ \A j \in ReqsWith("restore") :
         /\ \E i \in 1..(j - 1) : reqs[i].body.cmd = WRITE_AFTER
         /\ \E d \in 1..(j - 1) :
              /\ reqs[d].call = "destroy" /\ reqs[d].name = reqs[j].name
         /\ \E k \in 1..(j - 1) :
              /\ reqs[k].call = "snapshot"
              /\ reqs[j].body.snapshot_id = reqs[k].reply.snapshot_id
    /\ (Left /\ FailureFree) =>
         /\ Len(reqs) = 9
         /\ reqs[8].reply.output = BEFORE_SNAPSHOT
         /\ reqs[8].reply.output # AFTER_SNAPSHOT
         /\ out = << <<"File content is correct after restore (as expected)", "">> >>

\* snapshot_example ran to its end with every request served.
C7_Witness ==
  /\ Running("snapshot_example") /\ state = "idle" /\ FailureFree
  /\ Len(reqs) = 9
  /\ reqs[5].reply.output = AFTER_SNAPSHOT

\* ------------------------------------------------------------ C8
\* C8 as claimed: once vm_management_example or snapshot_example is left,
\* by its end or by the failure of a request, every VM it brought up has had
\* destroy invoked on it; and after a whole run from an empty server only
\* "example-vm" can remain.
C8_DestroyOnEveryPath ==
  /\ ((Running("vm_management_example") \/ Running("snapshot_example"))
        /\ Left /\ exc.kind # "KeyboardInterrupt") =>
       \A i \in 1..Len(reqs) :
         (reqs[i].call \in BringUp /\ Ok(reqs[i])) =>
           \E j \in (i + 1)..Len(reqs) :
             reqs[j].call = "destroy" /\ reqs[j].name = reqs[i].name
  /\ (initEmpty /\ state = "completed") => DOMAIN vms \subseteq {"example-vm"}

\* The statements that stand between bringing a VM up and destroying it.
Intermediate == {"sleep", "list", "run_cmd", "snapshot", "check_output"}
\* The requests of the current example that brought a VM up.
BroughtUp == {i \in 1..Len(reqs) : reqs[i].call \in BringUp /\ Ok(reqs[i])}
\* The destroy requests sent, after request i, to the VM request i named.
DestroysAfter(i) ==
  {j \in (i + 1)..Len(reqs) :
     reqs[j].call = "destroy" /\ reqs[j].name = reqs[i].name}

\* C8 amended: once vm_management_example or snapshot_example is left, every
\* VM it brought up has had destroy invoked on it, on every exit path but
\* one: when a statement between the bring-up and its destroy raises (the
\* sleep, list and the printing of its details, run_cmd, snapshot, the
\* output check), destroy is not invoked on the VM last brought up and that
\* VM is left on the server.  On the other paths (the example returns,
\* start_sandbox, restore or a destroy raises) destroy has been invoked on
\* every VM brought up.  A VM the example adds to the server is one it
\* brought up and did not destroy with success.  After a whole run from an
\* empty server only the four VMs of the script can remain, and only
\* "example-vm" when nothing failed.
C8_DestroyUnlessIntermediateRaises ==
  /\ ((Running("vm_management_example") \/ Running("snapshot_example"))
        /\ Left) =>
       LET last == steps[Len(steps)].op
           cut == ~NoRaise /\ last \in Intermediate
       IN /\ \A i \in BroughtUp :
               /\ DestroysAfter(i) = {} =>
                    /\ cut
                    /\ reqs[i].name \in DOMAIN vms
                    /\ \A k \in BroughtUp : k <= i
               /\ NoRaise => \E j \in DestroysAfter(i) : Ok(reqs[j])
          /\ cut => \E i \in BroughtUp : DestroysAfter(i) = {}
          /\ ~cut => \A i \in BroughtUp : DestroysAfter(i) # {}
          /\ NoRaise => BroughtUp # {}
          /\ \A n \in DOMAIN vms \ entryVms :
               \E i \in BroughtUp :
                 /\ reqs[i].name = n
                 /\ \A j \in DestroysAfter(i) : ~Ok(reqs[j])
  /\ (initEmpty /\ state = "completed") =>
       /\ DOMAIN vms \subseteq {"example-vm", "lifecycle-example",
                               "snapshot-example", "auto-cleanup-example"}
       /\ ~injected => DOMAIN vms = {"example-vm"}

\* In one run vm_management_example was cut short at list, leaving
\* "lifecycle-example" on the server, and snapshot_example then returned
\* having started, destroyed, restored and destroyed its VM.
C8_Witness ==
  /\ initEmpty /\ run = 1
  /\ "lifecycle-example" \in DOMAIN vms
  /\ Running("snapshot_example") /\ state = "idle" /\ NoRaise
  /\ ReqsWith("restore") # {}
  /\ Cardinality(ReqsWith("destroy")) = 2

\* ------------------------------------------------------------ C9
\* C9: from an empty server and with no failure so far, over the runs of
\* the script, every start_sandbox or restore request names one of the four
\* VMs of the script, absent from the server when the request is sent, and
\* none is answered with a name collision.
C9_NoNameCollision ==
  (initEmpty /\ ~injected) =>
    \A i \in 1..Len(reqs) :
      reqs[i].call \in BringUp =>
        /\ reqs[i].name \in {"example-vm", "lifecycle-example",
                             "snapshot-example", "auto-cleanup-example"}
        /\ ~reqs[i].present
        /\ reqs[i].status # 409

\* A second failure-free run has restored "snapshot-example".
C9_Witness ==
  /\ initEmpty /\ ~injected /\ run = 2
  /\ Running("snapshot_example")
  /\ ReqsWith("restore") # {}

\* ------------------------------------------------------------ C10
\* C10 as claimed: no list, run_cmd or snapshot request is sent to a VM that
\* start_sandbox or restore has brought up and that has not been waited for.
C10_WaitAfterBringUp ==
  \A i \in 1..Len(reqs) :
    reqs[i].call \in {"list", "run_cmd", "snapshot"} => reqs[i].fresh = "none"

\* C10 amended: no list, run_cmd or snapshot request is sent to a VM that
\* start_sandbox has brought up and that has not been waited for; the VM
\* that restore brings up is sent its run_cmd with no wait in between.
C10_WaitAfterStart ==
  /\ \A i \in 1..Len(reqs) :
       reqs[i].call \in {"list", "run_cmd", "snapshot"} =>
         reqs[i].fresh # "start_sandbox"
  /\ \A j \in ReqsWith("restore") :
       j < Len(reqs) =>
         /\ reqs[j + 1].call = "run_cmd"
         /\ Ok(reqs[j]) => reqs[j + 1].fresh = "restore"
  /\ \A i \in StepsWith("sleep") : i > 1 /\ steps[i - 1].op \in {"start_sandbox", "__enter__"}

\* The first request to a started VM was sent after the sleep, and the
\* request after restore with no sleep.
C10_Witness ==
  /\ Running("snapshot_example")
  /\ Len(reqs) = 8
  /\ reqs[2].call = "run_cmd" /\ reqs[2].fresh = "none" /\ Ok(reqs[2])
  /\ reqs[8].call = "run_cmd" /\ reqs[8].fresh = "restore"

====
